---- MODULE Spec2Model ----
(***************************************************************************)
(* Model of function/func.py: the Vision One OCI bucket batch scanner.     *)
(*                                                                         *)
(* Spec        one handler invocation in a fresh process: configuration    *)
(*             resolution (BatchScanner.__init__), scan_bucket with its    *)
(*             worker pool, the per-object disposition in the collecting   *)
(*             thread, the finally block and the handler's response.       *)
(* SpecSecretSeq / SpecSecretConc                                          *)
(*             callers of get_secret_from_vault, one call at a time or     *)
(*             interleaved, stepping through its cache test, its vault     *)
(*             call and its cache store.                                   *)
(* SpecDecide  move_file_based_on_scan on one collected verdict under      *)
(*             every mode and every presence of the bucket names.          *)
(*                                                                         *)
(* Every external call (vault, scan service, object store) either succeeds *)
(* or raises; the choice is nondeterministic.  The source, production and  *)
(* quarantine buckets are three different buckets.                         *)
(***************************************************************************)
EXTENDS Integers, Sequences, FiniteSets, TLC

\* ------------------------------------------------------------------ bounds
MaxObjects == 2          \* objects in the source bucket at most
NumThreads == 2          \* callers of get_secret_from_vault
MaxCalls == 3            \* calls of get_secret_from_vault in one behaviour

\* -------------------------------------------------------- program constants
DefaultMaxFiles == 100          \* os.environ.get('MAX_FILES', '100')
DefaultConcurrentScans == 5     \* os.environ.get('CONCURRENT_SCANS', '5')

Objects == 1..MaxObjects
Threads == 1..NumThreads

\* os.environ.get(var) of a variable that is not set
Unset == "<unset>"

\* `not value' of an environment value: None and '' are both falsy
Falsy(v) == v \in {Unset, ""}

valid_modes == {"MOVE_ALL", "MOVE_MALWARE_ONLY", "TAG_ONLY"}

\* The environments a process is started with.
Environments ==
    [ SOURCE_BUCKET_NAME     : {Unset, "src"},
      V1_REGION              : {Unset, "us-1"},
      V1_SCANNER_ENDPOINT    : {Unset, "host:443"},
      V1_FILE_SCANNER_MODE   : {Unset, ""} \cup valid_modes \cup {"DELETE_ALL"},
      PRODUCTION_BUCKET_NAME : {Unset, "prod"},
      QUARANTINE_BUCKET_NAME : {Unset, "quar"},
      VAULT_SECRET_OCID      : {Unset, "ocid1"},
      MAX_FILES              : {Unset, "1", "many"},
      CONCURRENT_SCANS       : {Unset, "0", "1", "five"} ]

SecretIds == {"ocid1", "ocid2"}

\* secret_bundle.data.secret_bundle_content.content of a secret
VaultContent(id) == IF id = "ocid1" THEN "key1" ELSE "key2"

\* int(s) for the strings of Environments: [ok, value]; ok = FALSE is ValueError
ParseInt(s) ==
    CASE s = "0"   -> [ok |-> TRUE, value |-> 0]
      [] s = "1"   -> [ok |-> TRUE, value |-> 1]
      [] OTHER     -> [ok |-> FALSE, value |-> 0]

\* -------------------------------------------------- get_secret_from_vault
\* One whole call against cache `cache'; vaultOk says whether
\* get_secret_bundle returns.  [ok, value, cache, fetched]
get_secret_from_vault(cache, id, vaultOk) ==
    IF id \in DOMAIN cache
    THEN [ok |-> TRUE, value |-> cache[id], cache |-> cache, fetched |-> FALSE]
    ELSE IF vaultOk
         THEN [ok |-> TRUE, value |-> VaultContent(id),
               cache |-> (id :> VaultContent(id)) @@ cache, fetched |-> TRUE]
         ELSE [ok |-> FALSE, value |-> "", cache |-> cache, fetched |-> TRUE]

\* ---------------------------------------------------- _get_configuration
NoConfig ==
    [ ok |-> FALSE, error |-> "",
      source_bucket_name |-> "", v1_file_scanner_mode |-> "",
      production_bucket_name |-> "", quarantine_bucket_name |-> "",
      v1_api_key |-> "", max_files |-> 0, concurrent_scans |-> 0 ]

ConfigError(msg) == [NoConfig EXCEPT !.error = msg]

\* lines 104-108: the first required variable that is missing, or "" if none
FirstMissingRequired(e) ==
    CASE Falsy(e.SOURCE_BUCKET_NAME)   -> "SOURCE_BUCKET_NAME"
      [] Falsy(e.V1_REGION)            -> "V1_REGION"
      [] Falsy(e.V1_SCANNER_ENDPOINT)  -> "V1_SCANNER_ENDPOINT"
      [] Falsy(e.V1_FILE_SCANNER_MODE) -> "V1_FILE_SCANNER_MODE"
      [] OTHER                         -> ""

\* NormalizeMode without the fallback of lines 114-117
NormalizeModeKept(m) == m

\* lines 111-117: the mode after validation
NormalizeMode(m) == IF m \notin valid_modes THEN "MOVE_ALL" ELSE m

\* a bucket name as config.get(...) sees it: "" when the key is not in config
Opt(v) == IF Falsy(v) THEN "" ELSE v

\* BucketConfig without the test of lines 138-142: MOVE_MALWARE_ONLY
\* resolves without a quarantine bucket
BucketConfigNoQuarantineTest(e, mode) ==
    CASE mode = "MOVE_ALL" ->
           IF Falsy(e.PRODUCTION_BUCKET_NAME)
           THEN [ok |-> FALSE, prod |-> "", quar |-> "",
                 error |-> "Missing required environment variable for MOVE_ALL mode: PRODUCTION_BUCKET_NAME"]
           ELSE IF Falsy(e.QUARANTINE_BUCKET_NAME)
           THEN [ok |-> FALSE, prod |-> "", quar |-> "",
                 error |-> "Missing required environment variable for MOVE_ALL mode: QUARANTINE_BUCKET_NAME"]
           ELSE [ok |-> TRUE, prod |-> e.PRODUCTION_BUCKET_NAME,
                 quar |-> e.QUARANTINE_BUCKET_NAME, error |-> ""]
      [] OTHER ->
           [ok |-> TRUE, prod |-> Opt(e.PRODUCTION_BUCKET_NAME),
            quar |-> Opt(e.QUARANTINE_BUCKET_NAME), error |-> ""]

\* lines 121-147: the bucket names of the mode, or the missing one
BucketConfig(e, mode) ==
    CASE mode = "MOVE_ALL" ->
           IF Falsy(e.PRODUCTION_BUCKET_NAME)
           THEN [ok |-> FALSE, prod |-> "", quar |-> "",
                 error |-> "Missing required environment variable for MOVE_ALL mode: PRODUCTION_BUCKET_NAME"]
           ELSE IF Falsy(e.QUARANTINE_BUCKET_NAME)
           THEN [ok |-> FALSE, prod |-> "", quar |-> "",
                 error |-> "Missing required environment variable for MOVE_ALL mode: QUARANTINE_BUCKET_NAME"]
           ELSE [ok |-> TRUE, prod |-> e.PRODUCTION_BUCKET_NAME,
                 quar |-> e.QUARANTINE_BUCKET_NAME, error |-> ""]
      [] mode = "MOVE_MALWARE_ONLY" ->
           IF Falsy(e.QUARANTINE_BUCKET_NAME)
           THEN [ok |-> FALSE, prod |-> "", quar |-> "",
                 error |-> "Missing required environment variable for MOVE_MALWARE_ONLY mode: QUARANTINE_BUCKET_NAME"]
           ELSE [ok |-> TRUE, prod |-> Opt(e.PRODUCTION_BUCKET_NAME),
                 quar |-> e.QUARANTINE_BUCKET_NAME, error |-> ""]
      [] OTHER ->
           [ok |-> TRUE, prod |-> Opt(e.PRODUCTION_BUCKET_NAME),
            quar |-> Opt(e.QUARANTINE_BUCKET_NAME), error |-> ""]

\* NumericSetting falling back to the default on an invalid number, as the
\* scanner mode does
NumericSettingDefaulting(v, default) ==
    IF v = Unset \/ ~ParseInt(v).ok THEN [ok |-> TRUE, value |-> default] ELSE ParseInt(v)

\* lines 161-162: an optional number with its default
NumericSetting(v, default) == IF v = Unset THEN [ok |-> TRUE, value |-> default] ELSE ParseInt(v)

\* The whole of _get_configuration.  secret is the result of the call of
\* get_secret_from_vault, which is made only when line 157 is reached.
\* [cfg, reachedVault]
_get_configuration(e, secret) ==
    LET missing == FirstMissingRequired(e)
        mode    == NormalizeMode(e.V1_FILE_SCANNER_MODE)
        b       == BucketConfig(e, mode)
        mf      == NumericSetting(e.MAX_FILES, DefaultMaxFiles)
        cs      == NumericSetting(e.CONCURRENT_SCANS, DefaultConcurrentScans)
    IN  IF missing # ""
        THEN [cfg |-> ConfigError("Missing required environment variable: " \o missing),
              reachedVault |-> FALSE]
        ELSE IF ~b.ok
        THEN [cfg |-> ConfigError(b.error), reachedVault |-> FALSE]
        ELSE IF Falsy(e.VAULT_SECRET_OCID)
        THEN [cfg |-> ConfigError("Missing required environment variable: VAULT_SECRET_OCID"),
              reachedVault |-> FALSE]
        ELSE IF ~secret.ok
        THEN [cfg |-> ConfigError("Failed to retrieve secret from vault"),
              reachedVault |-> TRUE]
        ELSE IF ~mf.ok \/ ~cs.ok
        THEN [cfg |-> ConfigError("invalid literal for int()"), reachedVault |-> TRUE]
        ELSE [cfg |-> [ ok |-> TRUE, error |-> "",
                        source_bucket_name |-> e.SOURCE_BUCKET_NAME,
                        v1_file_scanner_mode |-> mode,
                        production_bucket_name |-> b.prod,
                        quarantine_bucket_name |-> b.quar,
                        v1_api_key |-> secret.value,
                        max_files |-> mf.value,
                        concurrent_scans |-> cs.value ],
              reachedVault |-> TRUE]

\* ------------------------------------------------------------------ state
VARIABLES
    env,            \* os.environ of the process
    source_count,   \* how many objects the source bucket held at the start
    pc,             \* where the handler's thread is
    exc,            \* an exception is propagating out of scan_bucket
    config,         \* BatchScanner.config
    v1_handle,      \* BatchScanner.v1_handle: "none", "open", "closed"
    listed,         \* objects_response.data.objects
    task,           \* per object, its future: "none", "queued", "downloaded", "done"
    scan_result,    \* per object, what _scan_file returned: "clean", "malware", "error"
    cur,            \* the object whose future the collecting loop holds (0: none)
    plan,           \* the disposition move_file_based_on_scan chose for cur
    action,         \* per object, the string move_file_based_on_scan returned
    ops,            \* per object, the store calls its disposition issued
    result,         \* the ScanResult of the run
    incr,           \* per object, the counters incremented for it, in order
    store,          \* per bucket, the objects it holds
    tagged,         \* objects of the source bucket rewritten with scan metadata
    response,       \* what handler returned
    infected,       \* the downloaded objects in whose bytes the scan service finds malware
    basename,       \* per listed object, os.path.basename of its name
    tmp,            \* per basename, the object whose bytes /tmp/<basename> holds (0: no file)
    existing_meta,  \* existing_meta of the disposition in progress
    last_put,       \* the latest put_object call: its object, bucket and opc_meta
    put_count,      \* per object, the number of put_object calls issued for it
    list_failed,    \* list_objects raised
    runs,           \* how many times scan_bucket was called on the instance
    secret_cache,   \* _secret_cache
    tpc,            \* per caller of get_secret_from_vault, its place in the call
    tid,            \* per caller, the secret_ocid of its call
    tret,           \* per caller, the outcome of its last call
    fetch_calls,    \* per secret, the get_secret_bundle calls made
    fetch_ok,       \* per secret, the get_secret_bundle calls that returned
    cache_writes,   \* per secret, the stores into _secret_cache
    last_fetch,     \* per secret, how its latest get_secret_bundle call ended
    calls           \* calls of get_secret_from_vault begun

runVars == << env, source_count, pc, exc, config, v1_handle, listed, task,
              scan_result, cur, plan, action, ops, result, incr, store,
              tagged, response, infected, basename, tmp, existing_meta,
              last_put, put_count, list_failed, runs >>
secretVars == << tpc, tid, tret, fetch_calls, fetch_ok, cache_writes,
                 last_fetch, calls >>
vars == << runVars, secret_cache, secretVars >>

Buckets == {"src", "prod", "quar"}

\* ---------------------------------------------------- object names, bytes
\* line 187: the scratch file of an object is /tmp/<basename of its name>.
\* The listed names either all differ in their basename (x1.bin, x2.bin, ...)
\* or all share one (a1/x.bin, a2/x.bin, ...).
DistinctNames == [o \in Objects |-> o]
SharedName == [o \in Objects |-> 1]
NameMaps == {DistinctNames, SharedName}

\* ---------------------------------------------------------------- metadata
\* a metadata map is a function from keys to values
EmptyMeta == << >>

\* metadata an uploader set on an object before the run; two of its keys are
\* keys the scanner writes as well
UserMeta ==
    ("owner" :> "alice") @@ ("filescanned" :> "false") @@ ("originalbucket" :> "upload")

\* values of the opc-meta-data header of a head_object response
Absent == "<absent>"
MapText == "{owner: alice, filescanned: false, originalbucket: upload}"
HeaderTexts == {"{}", MapText, "[1, 2]", "owner=alice"}

\* json.loads (lines 305, 353) on the header texts: the decoded value, or a
\* JSONDecodeError.  A decoded value that is no dict is kept as it is.
json_loads(text) ==
    CASE text = "{}"      -> [ok |-> TRUE, value |-> [shape |-> "map", map |-> EmptyMeta]]
      [] text = MapText   -> [ok |-> TRUE, value |-> [shape |-> "map", map |-> UserMeta]]
      [] text = "[1, 2]"  -> [ok |-> TRUE, value |-> [shape |-> "nonmap", map |-> EmptyMeta]]
      [] OTHER            -> [ok |-> FALSE, value |-> [shape |-> "map", map |-> EmptyMeta]]

\* what head_object can answer: it raises, or returns headers with or
\* without an opc-meta-data header
HeadAnswers ==
    {[raises |-> TRUE, header |-> Absent]}
    \cup {[raises |-> FALSE, header |-> h] : h \in {Absent} \cup HeaderTexts}

NoPut == [object |-> 0, bucket |-> "", existing |-> EmptyMeta, opc_meta |-> EmptyMeta]

EmptyExisting == [shape |-> "map", map |-> EmptyMeta]
Unread == [shape |-> "unread", map |-> EmptyMeta]

\* lines 297-309 and 345-357: existing_meta after the inner try block.  The
\* bare except turns a raising head_object and a JSONDecodeError into {}.
ReadExistingMeta(ans) ==
    IF ans.raises
    THEN EmptyExisting
    ELSE IF ans.header = Absent
    THEN EmptyExisting
    ELSE LET r == json_loads(ans.header)
         IN  IF r.ok THEN r.value ELSE EmptyExisting

\* lines 246-255: the metadata of a verdict.  _scan_file returns no
\* 'malware_names' key, so malwarenames is never set.
ScanMetadata(is_malware) ==
    ("filescanned" :> "true")
    @@ ("ismalwaredetected" :> IF is_malware THEN "true" ELSE "false")
    @@ ("ondemand_scantimestamp" :> "now")
    @@ ("scanid" :> "scan-1")
    @@ ("scannerversion" :> "1.0")

\* line 360: metadata["originalbucket"] = source_bucket
MoveMetadata(is_malware, source_bucket) ==
    [k \in DOMAIN ScanMetadata(is_malware) \cup {"originalbucket"} |->
        IF k = "originalbucket" THEN source_bucket ELSE ScanMetadata(is_malware)[k]]

\* Merge with the existing metadata winning a collision
MergeExistingWins(existing, metadata) ==
    [k \in DOMAIN existing \cup DOMAIN metadata |->
        IF k \in DOMAIN existing THEN existing[k] ELSE metadata[k]]

\* lines 312 and 364: {**existing_meta, **metadata}
Merge(existing, metadata) ==
    [k \in DOMAIN existing \cup DOMAIN metadata |->
        IF k \in DOMAIN metadata THEN metadata[k] ELSE existing[k]]

\* ScanResult(): lines 63-72; duration is kept as `was it set'
NewScanResult ==
    [ total |-> 0, scanned |-> 0, clean |-> 0, malware |-> 0, errors |-> 0,
      skipped |-> 0, duration_set |-> FALSE ]

NoPlan == [kind |-> "none", bucket |-> ""]
NoResponse == [status |-> "", status_code |-> 0, scanner_mode |-> ""]

SecretInit ==
    /\ secret_cache = << >>
    /\ tpc = [t \in Threads |-> "idle"]
    /\ tid = [t \in Threads |-> ""]
    /\ tret = [t \in Threads |-> "none"]
    /\ fetch_calls = [i \in SecretIds |-> 0]
    /\ fetch_ok = [i \in SecretIds |-> 0]
    /\ cache_writes = [i \in SecretIds |-> 0]
    /\ last_fetch = [i \in SecretIds |-> "none"]
    /\ calls = 0

RunInit(e, n) ==
    /\ env = e
    /\ source_count = n
    /\ pc = "handler"
    /\ exc = FALSE
    /\ config = NoConfig
    /\ v1_handle = "none"
    /\ listed = {}
    /\ task = [o \in Objects |-> "none"]
    /\ scan_result = [o \in Objects |-> "none"]
    /\ cur = 0
    /\ plan = NoPlan
    /\ action = [o \in Objects |-> ""]
    /\ ops = [o \in Objects |-> {}]
    /\ result = NewScanResult
    /\ incr = [o \in Objects |-> << >>]
    /\ store = [b \in Buckets |-> IF b = "src" THEN 1..n ELSE {}]
    /\ tagged = {}
    /\ response = NoResponse
    /\ infected = {}
    /\ basename = DistinctNames
    /\ tmp = [b \in Objects |-> 0]
    /\ existing_meta = Unread
    /\ last_put = NoPut
    /\ put_count = [o \in Objects |-> 0]
    /\ list_failed = FALSE
    /\ runs = 1

Init ==
    /\ \E e \in Environments, n \in 0..MaxObjects : RunInit(e, n)
    /\ SecretInit

\* --------------------------------------------------------------- handler
\* handler, line 535: BatchScanner() resolves the configuration; a ValueError
\* goes to the except block of handler (lines 558-570).  The signer and the
\* namespace lookup of lines 79-82 are taken to succeed.
ErrorResponse == [status |-> "error", status_code |-> 500, scanner_mode |-> ""]

Construct ==
    /\ pc = "handler"
    /\ \E vaultOk \in BOOLEAN :
         LET id  == env.VAULT_SECRET_OCID
             sec == IF Falsy(id)
                    THEN [ok |-> FALSE, value |-> "", cache |-> secret_cache, fetched |-> FALSE]
                    ELSE get_secret_from_vault(secret_cache, id, vaultOk)
             r   == _get_configuration(env, sec)
         IN  /\ config' = r.cfg
             /\ secret_cache' = IF r.reachedVault THEN sec.cache ELSE secret_cache
             /\ IF r.cfg.ok
                THEN pc' = "scan_bucket" /\ response' = response
                ELSE pc' = "end" /\ response' = ErrorResponse
    /\ UNCHANGED << env, source_count, exc, v1_handle, listed, task, scan_result,
                    cur, plan, action, ops, result, incr, store, tagged >>
    /\ UNCHANGED << infected, basename, tmp, existing_meta, last_put, put_count, list_failed, runs >>
    /\ UNCHANGED secretVars

\* ----------------------------------------------------------- scan_bucket
\* _init_vision_one, lines 166-174, called at line 470.  amaas.grpc.init
\* may raise; the exception leaves scan_bucket through the finally block.
_init_vision_one(h, initOk) == IF h = "none" /\ initOk THEN "open" ELSE h

InitVisionOne ==
    /\ pc = "scan_bucket"
    /\ \E initOk \in BOOLEAN :
         /\ v1_handle' = _init_vision_one(v1_handle, initOk)
         /\ IF v1_handle = "none" /\ ~initOk
            THEN pc' = "finally" /\ exc' = TRUE
            ELSE pc' = "list" /\ exc' = exc
    /\ UNCHANGED << env, source_count, config, listed, task, scan_result, cur, plan,
                    action, ops, result, incr, store, tagged, response,
                    secret_cache >>
    /\ UNCHANGED << infected, basename, tmp, existing_meta, last_put, put_count, list_failed, runs >>
    /\ UNCHANGED secretVars

\* list_objects(bucket, limit): the first `limit' objects of the bucket
ListingOf(bucket, limit) == {o \in bucket : Cardinality({p \in bucket : p < o}) < limit}

\* lines 473-484.  A failing list_objects raises out of scan_bucket; an
\* empty listing returns result from inside the try block.  The listing
\* tells the names of the objects.
ListObjects ==
    /\ pc = "list"
    /\ \E listOk \in BOOLEAN :
         IF ~listOk
         THEN /\ pc' = "finally" /\ exc' = TRUE
              /\ list_failed' = TRUE
              /\ UNCHANGED << listed, result, basename >>
         ELSE LET objects == ListingOf(store[config.source_bucket_name], config.max_files)
              IN  /\ listed' = objects
                  /\ result' = [result EXCEPT !.total = Cardinality(objects)]
                  /\ pc' = IF objects = {} THEN "finally" ELSE "pool"
                  /\ exc' = exc
                  /\ list_failed' = list_failed
                  /\ basename' \in IF Cardinality(objects) > 1 THEN NameMaps
                                                              ELSE {DistinctNames}
    /\ UNCHANGED << env, source_count, config, v1_handle, task, scan_result, cur, plan,
                    action, ops, incr, store, tagged, response, secret_cache >>
    /\ UNCHANGED << infected, tmp, existing_meta, last_put, put_count, runs >>
    /\ UNCHANGED secretVars

\* lines 489-494: ThreadPoolExecutor(max_workers) raises ValueError for
\* max_workers <= 0; otherwise one future is submitted per listed object.
SubmitTasks ==
    /\ pc = "pool"
    /\ IF config.concurrent_scans <= 0
       THEN /\ pc' = "finally" /\ exc' = TRUE
            /\ task' = task
       ELSE /\ task' = [o \in Objects |-> IF o \in listed THEN "queued" ELSE task[o]]
            /\ pc' = "collect" /\ exc' = exc
    /\ UNCHANGED << env, source_count, config, v1_handle, listed, scan_result, cur,
                    plan, action, ops, result, incr, store, tagged, response,
                    secret_cache >>
    /\ UNCHANGED << infected, basename, tmp, existing_meta, last_put, put_count, list_failed, runs >>
    /\ UNCHANGED secretVars

\* ------------------------------------------------------------ _scan_file
\* the futures a worker thread of the pool is executing
Running == {o \in Objects : task[o] = "downloaded"}

\* Download without the except block of line 228: the exception of a failed
\* get_object reaches future.result() and leaves scan_bucket
DownloadUncaught(o) ==
    /\ task[o] = "queued"
    /\ Cardinality(Running) < config.concurrent_scans
    /\ \E getOk \in BOOLEAN :
         IF getOk /\ o \in store[config.source_bucket_name]
         THEN /\ task' = [task EXCEPT ![o] = "downloaded"]
              /\ tmp' = [tmp EXCEPT ![basename[o]] = o]
              /\ \E bytes \in {"clean", "malware"} :
                   infected' = IF bytes = "malware" THEN infected \cup {o} ELSE infected
              /\ UNCHANGED << scan_result, exc >>
         ELSE /\ task' = [task EXCEPT ![o] = "done"]
              /\ scan_result' = [scan_result EXCEPT ![o] = "error"]
              /\ exc' = TRUE
              /\ UNCHANGED << tmp, infected >>
    /\ UNCHANGED << env, source_count, pc, config, v1_handle, listed, cur, plan,
                    action, ops, result, incr, store, tagged, response,
                    secret_cache >>
    /\ UNCHANGED << basename, existing_meta, last_put, put_count, list_failed, runs >>
    /\ UNCHANGED secretVars

\* Download without the pool's limit: every submitted future starts at once
DownloadUnbounded(o) ==
    /\ task[o] = "queued"
    /\ \E getOk \in BOOLEAN :
         IF getOk /\ o \in store[config.source_bucket_name]
         THEN /\ task' = [task EXCEPT ![o] = "downloaded"]
              /\ tmp' = [tmp EXCEPT ![basename[o]] = o]
              /\ \E bytes \in {"clean", "malware"} :
                   infected' = IF bytes = "malware" THEN infected \cup {o} ELSE infected
              /\ scan_result' = scan_result
         ELSE /\ task' = [task EXCEPT ![o] = "done"]
              /\ scan_result' = [scan_result EXCEPT ![o] = "error"]
              /\ UNCHANGED << tmp, infected >>
    /\ UNCHANGED << env, source_count, pc, exc, config, v1_handle, listed, cur, plan,
                    action, ops, result, incr, store, tagged, response,
                    secret_cache >>
    /\ UNCHANGED << basename, existing_meta, last_put, put_count, list_failed, runs >>
    /\ UNCHANGED secretVars

\* Download with the pool's limit off by one: a worker starts a task only
\* while two workers are free
DownloadStarved(o) ==
    /\ task[o] = "queued"
    /\ Cardinality(Running) + 1 < config.concurrent_scans
    /\ \E getOk \in BOOLEAN :
         IF getOk /\ o \in store[config.source_bucket_name]
         THEN /\ task' = [task EXCEPT ![o] = "downloaded"]
              /\ tmp' = [tmp EXCEPT ![basename[o]] = o]
              /\ \E bytes \in {"clean", "malware"} :
                   infected' = IF bytes = "malware" THEN infected \cup {o} ELSE infected
              /\ scan_result' = scan_result
         ELSE /\ task' = [task EXCEPT ![o] = "done"]
              /\ scan_result' = [scan_result EXCEPT ![o] = "error"]
              /\ UNCHANGED << tmp, infected >>
    /\ UNCHANGED << env, source_count, pc, exc, config, v1_handle, listed, cur, plan,
                    action, ops, result, incr, store, tagged, response,
                    secret_cache >>
    /\ UNCHANGED << basename, existing_meta, last_put, put_count, list_failed, runs >>
    /\ UNCHANGED secretVars

\* A free worker takes a queued future, calls get_object and writes the
\* bytes it returns to /tmp/<basename> (lines 180-190); a failure is caught
\* at line 228 and returned as an error result.
Download(o) ==
    /\ task[o] = "queued"
    /\ Cardinality(Running) < config.concurrent_scans
    /\ \E getOk \in BOOLEAN :
         IF getOk /\ o \in store[config.source_bucket_name]
         THEN /\ task' = [task EXCEPT ![o] = "downloaded"]
              /\ tmp' = [tmp EXCEPT ![basename[o]] = o]
              /\ \E bytes \in {"clean", "malware"} :
                   infected' = IF bytes = "malware" THEN infected \cup {o} ELSE infected
              /\ scan_result' = scan_result
         ELSE /\ task' = [task EXCEPT ![o] = "done"]
              /\ scan_result' = [scan_result EXCEPT ![o] = "error"]
              /\ UNCHANGED << tmp, infected >>
    /\ UNCHANGED << env, source_count, pc, exc, config, v1_handle, listed, cur, plan,
                    action, ops, result, incr, store, tagged, response,
                    secret_cache >>
    /\ UNCHANGED << basename, existing_meta, last_put, put_count, list_failed, runs >>
    /\ UNCHANGED secretVars

\* the verdict of the scan service on the bytes of object p
Verdict(p) == IF p \in infected THEN "malware" ELSE "clean"

\* lines 195-230: amaas.grpc.scan_file on the handle and the parsing of its
\* answer.  The service scans the bytes that /tmp/<basename> holds when it
\* is called; a failing call, a call on a handle that is not open, or an
\* answer that does not parse is an error.
ScanFile(o) ==
    /\ task[o] = "downloaded"
    /\ \E callOk \in BOOLEAN :
         scan_result' = [scan_result EXCEPT ![o] =
                            IF v1_handle = "open" /\ callOk
                            THEN Verdict(tmp[basename[o]]) ELSE "error"]
    /\ task' = [task EXCEPT ![o] = "done"]
    /\ UNCHANGED << env, source_count, pc, exc, config, v1_handle, listed, cur, plan,
                    action, ops, result, incr, store, tagged, response,
                    secret_cache >>
    /\ UNCHANGED << infected, basename, tmp, existing_meta, last_put, put_count, list_failed, runs >>
    /\ UNCHANGED secretVars

\* ------------------------------------------------- move_file_based_on_scan
TagInPlace == [kind |-> "tag", bucket |-> ""]
MoveTo(b) == [kind |-> "move", bucket |-> b]

\* Decide with the MOVE_ALL branch moving without the test of line 277
DecideNoFallback(mode, is_malware, quarantine_bucket_name, production_bucket_name) ==
    IF mode = "TAG_ONLY"
    THEN TagInPlace
    ELSE IF mode = "MOVE_MALWARE_ONLY"
    THEN IF is_malware /\ quarantine_bucket_name # ""
         THEN MoveTo(quarantine_bucket_name)
         ELSE TagInPlace
    ELSE IF is_malware THEN MoveTo("quar") ELSE MoveTo("prod")

\* Decide with the TAG_ONLY branch of lines 258-260 lost: TAG_ONLY falls
\* into the MOVE_MALWARE_ONLY branch
DecideTagOnlyQuarantines(mode, is_malware, quarantine_bucket_name, production_bucket_name) ==
    IF mode \in {"TAG_ONLY", "MOVE_MALWARE_ONLY"}
    THEN IF is_malware /\ quarantine_bucket_name # ""
         THEN MoveTo(quarantine_bucket_name)
         ELSE TagInPlace
    ELSE LET target_bucket == IF is_malware THEN quarantine_bucket_name
                                            ELSE production_bucket_name
         IN  IF target_bucket # "" THEN MoveTo(target_bucket) ELSE TagInPlace

\* lines 257-283: the disposition of an object that has a verdict
Decide(mode, is_malware, quarantine_bucket_name, production_bucket_name) ==
    IF mode = "TAG_ONLY"
    THEN TagInPlace
    ELSE IF mode = "MOVE_MALWARE_ONLY"
    THEN IF is_malware /\ quarantine_bucket_name # ""
         THEN MoveTo(quarantine_bucket_name)
         ELSE TagInPlace
    ELSE LET target_bucket == IF is_malware THEN quarantine_bucket_name
                                            ELSE production_bucket_name
         IN  IF target_bucket # "" THEN MoveTo(target_bucket) ELSE TagInPlace

\* lines 506-513: the counter of a scan result
Category(sr) ==
    IF sr = "error" THEN "errors" ELSE IF sr = "malware" THEN "malware" ELSE "clean"

\* Record counting a scan error as the except block of lines 517-519 does:
\* errors without scanned
RecordErrorUnscanned(o, act) ==
    LET c == Category(scan_result[o])
    IN  /\ action' = [action EXCEPT ![o] = act]
        /\ result' = IF c = "errors"
                     THEN [result EXCEPT !.errors = @ + 1]
                     ELSE [result EXCEPT !.scanned = @ + 1, ![c] = @ + 1]
        /\ incr' = [incr EXCEPT ![o] = Append(@, c)]
        /\ cur' = 0
        /\ plan' = NoPlan
        /\ existing_meta' = Unread
        /\ pc' = "collect"

\* lines 504-515: move_file_based_on_scan has returned `act' for object o.
\* The except block of lines 517-519 has no step: future.result() and
\* move_file_based_on_scan return a value for every failure they meet.
Record(o, act) ==
    LET c == Category(scan_result[o])
    IN  /\ action' = [action EXCEPT ![o] = act]
        /\ result' = [result EXCEPT !.scanned = @ + 1, ![c] = @ + 1]
        /\ incr' = [incr EXCEPT ![o] = Append(@, c)]
        /\ cur' = 0
        /\ plan' = NoPlan
        /\ existing_meta' = Unread
        /\ pc' = "collect"

Processed == {o \in Objects : action[o] # ""}

\* Collect without the test of lines 234-236: a scan error is disposed like
\* a verdict without malware
CollectNoErrorTest(o) ==
    /\ pc = "collect"
    /\ o \in listed \ Processed
    /\ task[o] = "done"
    /\ cur' = o
    /\ plan' = Decide(config.v1_file_scanner_mode, scan_result[o] = "malware",
                      config.quarantine_bucket_name, config.production_bucket_name)
    /\ pc' = "get"
    /\ existing_meta' = Unread
    /\ UNCHANGED << action, result, incr >>
    /\ UNCHANGED << env, source_count, exc, config, v1_handle, listed, task,
                    scan_result, ops, store, tagged, response, secret_cache >>
    /\ UNCHANGED << infected, basename, tmp, last_put, put_count, list_failed, runs >>
    /\ UNCHANGED secretVars

\* lines 497-504 and 232-283: as_completed yields a finished future; a scan
\* error returns 'error' at once, a verdict selects the disposition.
Collect(o) ==
    /\ pc = "collect"
    /\ o \in listed \ Processed
    /\ task[o] = "done"
    /\ IF scan_result[o] = "error"
       THEN Record(o, "error")
       ELSE /\ cur' = o
            /\ plan' = Decide(config.v1_file_scanner_mode, scan_result[o] = "malware",
                              config.quarantine_bucket_name,
                              config.production_bucket_name)
            /\ pc' = "get"
            /\ existing_meta' = Unread
            /\ UNCHANGED << action, result, incr >>
    /\ UNCHANGED << env, source_count, exc, config, v1_handle, listed, task,
                    scan_result, ops, store, tagged, response, secret_cache >>
    /\ UNCHANGED << infected, basename, tmp, last_put, put_count, list_failed, runs >>
    /\ UNCHANGED secretVars

\* what a disposition returns when a call outside the inner try blocks raises
FailedStatus(p) == IF p.kind = "tag" THEN "metadata_update_failed" ELSE "move_failed"

Issue(o, op) == ops' = [ops EXCEPT ![o] = @ \cup {op}]

\* lines 312-324 and 360-380: the put_object call of the disposition of
\* object o: the bucket it writes to and the opc_meta it passes, with the
\* existing_meta the opc_meta was merged from
PutCall(o) ==
    LET is_malware == scan_result[o] = "malware"
        metadata == IF plan.kind = "tag"
                    THEN ScanMetadata(is_malware)
                    ELSE MoveMetadata(is_malware, config.source_bucket_name)
    IN  [ object |-> o,
          bucket |-> IF plan.kind = "tag" THEN config.source_bucket_name
                                          ELSE plan.bucket,
          existing |-> existing_meta.map,
          opc_meta |-> Merge(existing_meta.map, metadata) ]

\* lines 291-295 and 339-343: get_object of the source object
DispGet ==
    /\ pc = "get"
    /\ Issue(cur, "get")
    /\ \E getOk \in BOOLEAN :
         IF getOk /\ cur \in store[config.source_bucket_name]
         THEN /\ pc' = "head"
              /\ UNCHANGED << action, result, incr, cur, plan, existing_meta >>
         ELSE Record(cur, FailedStatus(plan))
    /\ UNCHANGED << env, source_count, exc, config, v1_handle, listed, task,
                    scan_result, store, tagged, response, secret_cache >>
    /\ UNCHANGED << infected, basename, tmp, last_put, put_count, list_failed, runs >>
    /\ UNCHANGED secretVars

\* lines 297-312 and 345-364: head_object inside its own try, then the
\* merge outside of it.  A failing head_object or an unparsable header
\* leaves existing_meta empty; a header that decodes to something else than
\* a dict makes {**existing_meta, **metadata} raise TypeError, which the
\* outer except of lines 329 and 396 turns into the failed status.
DispHead ==
    /\ pc = "head"
    /\ Issue(cur, "head")
    /\ \E ans \in HeadAnswers :
         IF ReadExistingMeta(ans).shape = "map"
         THEN /\ existing_meta' = ReadExistingMeta(ans)
              /\ pc' = "put"
              /\ UNCHANGED << action, result, incr, cur, plan >>
         ELSE Record(cur, FailedStatus(plan))
    /\ UNCHANGED << env, source_count, exc, config, v1_handle, listed, task,
                    scan_result, store, tagged, response, secret_cache >>
    /\ UNCHANGED << infected, basename, tmp, last_put, put_count, list_failed, runs >>
    /\ UNCHANGED secretVars

\* DispPut with the `return "copy_failed"' of line 383 lost: a failed copy
\* falls through to the delete
DispPutFallThrough ==
    /\ pc = "put"
    /\ Issue(cur, "put")
    /\ last_put' = PutCall(cur)
    /\ put_count' = [put_count EXCEPT ![cur] = @ + 1]
    /\ \E putOk \in BOOLEAN :
         IF plan.kind = "tag"
         THEN /\ Record(cur, IF putOk THEN "metadata_updated" ELSE "metadata_update_failed")
              /\ tagged' = IF putOk THEN tagged \cup {cur} ELSE tagged
              /\ store' = IF putOk
                          THEN [store EXCEPT ![config.source_bucket_name] = @ \cup {cur}]
                          ELSE store
         ELSE /\ tagged' = tagged
              /\ store' = IF putOk THEN [store EXCEPT ![plan.bucket] = @ \cup {cur}]
                                   ELSE store
              /\ pc' = "delete"
              /\ UNCHANGED << action, result, incr, cur, plan, existing_meta >>
    /\ UNCHANGED << env, source_count, exc, config, v1_handle, listed, task,
                    scan_result, response, secret_cache >>
    /\ UNCHANGED << infected, basename, tmp, list_failed, runs >>
    /\ UNCHANGED secretVars

\* lines 317-331 (tag in place) and 366-383 (copy to the target bucket)
DispPut ==
    /\ pc = "put"
    /\ Issue(cur, "put")
    /\ last_put' = PutCall(cur)
    /\ put_count' = [put_count EXCEPT ![cur] = @ + 1]
    /\ \E putOk \in BOOLEAN :
         IF plan.kind = "tag"
         THEN /\ Record(cur, IF putOk THEN "metadata_updated" ELSE "metadata_update_failed")
              /\ tagged' = IF putOk THEN tagged \cup {cur} ELSE tagged
              /\ store' = IF putOk
                          THEN [store EXCEPT ![config.source_bucket_name] = @ \cup {cur}]
                          ELSE store
         ELSE /\ tagged' = tagged
              /\ IF putOk
                 THEN /\ store' = [store EXCEPT ![plan.bucket] = @ \cup {cur}]
                      /\ pc' = "delete"
                      /\ UNCHANGED << action, result, incr, cur, plan, existing_meta >>
                 ELSE /\ store' = store
                      /\ Record(cur, "copy_failed")
    /\ UNCHANGED << env, source_count, exc, config, v1_handle, listed, task,
                    scan_result, response, secret_cache >>
    /\ UNCHANGED << infected, basename, tmp, list_failed, runs >>
    /\ UNCHANGED secretVars

\* DispDelete without the outer except of lines 396-398: a failing
\* delete_object leaves move_file_based_on_scan and scan_bucket
DispDeleteUncaught ==
    /\ pc = "delete"
    /\ Issue(cur, "delete")
    /\ \E delOk \in BOOLEAN :
         IF delOk
         THEN /\ store' = [store EXCEPT ![config.source_bucket_name] = @ \ {cur}]
              /\ tagged' = tagged \ {cur}
              /\ Record(cur, "moved")
              /\ exc' = exc
         ELSE /\ exc' = TRUE
              /\ pc' = "finally"
              /\ UNCHANGED << store, tagged, action, result, incr, cur, plan,
                              existing_meta >>
    /\ UNCHANGED << env, source_count, config, v1_handle, listed, task,
                    scan_result, response, secret_cache >>
    /\ UNCHANGED << infected, basename, tmp, last_put, put_count, list_failed, runs >>
    /\ UNCHANGED secretVars

\* DispDelete reconciling a failed delete: the copy in the target bucket is
\* removed again
DispDeleteRollsBack ==
    /\ pc = "delete"
    /\ Issue(cur, "delete")
    /\ \E delOk \in BOOLEAN :
         IF delOk
         THEN /\ store' = [store EXCEPT ![config.source_bucket_name] = @ \ {cur}]
              /\ tagged' = tagged \ {cur}
              /\ Record(cur, "moved")
         ELSE /\ store' = [store EXCEPT ![plan.bucket] = @ \ {cur}]
              /\ tagged' = tagged
              /\ Record(cur, "move_failed")
    /\ UNCHANGED << env, source_count, exc, config, v1_handle, listed, task,
                    scan_result, response, secret_cache >>
    /\ UNCHANGED << infected, basename, tmp, last_put, put_count, list_failed, runs >>
    /\ UNCHANGED secretVars

\* lines 385-398: delete_object of the source object after the copy
DispDelete ==
    /\ pc = "delete"
    /\ Issue(cur, "delete")
    /\ \E delOk \in BOOLEAN :
         IF delOk
         THEN /\ store' = [store EXCEPT ![config.source_bucket_name] = @ \ {cur}]
              /\ tagged' = tagged \ {cur}
              /\ Record(cur, "moved")
         ELSE /\ UNCHANGED << store, tagged >>
              /\ Record(cur, "move_failed")
    /\ UNCHANGED << env, source_count, exc, config, v1_handle, listed, task,
                    scan_result, response, secret_cache >>
    /\ UNCHANGED << infected, basename, tmp, last_put, put_count, list_failed, runs >>
    /\ UNCHANGED secretVars

\* lines 497, 520-521: as_completed is exhausted, the with block shuts the
\* pool down (waiting for its workers) and the duration is set.
LeavePool ==
    /\ pc = "collect"
    /\ listed \subseteq Processed
    /\ \A o \in listed : task[o] = "done"
    /\ result' = [result EXCEPT !.duration_set = TRUE]
    /\ pc' = "finally"
    /\ UNCHANGED << env, source_count, exc, config, v1_handle, listed, task,
                    scan_result, cur, plan, action, ops, incr, store, tagged,
                    response, secret_cache >>
    /\ UNCHANGED << infected, basename, tmp, existing_meta, last_put, put_count, list_failed, runs >>
    /\ UNCHANGED secretVars

\* Finally with the quit after the try block instead of in a finally
\* block: an exception skips it
FinallySkippedByException ==
    /\ pc = "finally"
    /\ v1_handle' = IF v1_handle # "none" /\ ~exc THEN "closed" ELSE v1_handle
    /\ pc' = "return"
    /\ UNCHANGED << env, source_count, exc, config, listed, task, scan_result, cur,
                    plan, action, ops, result, incr, store, tagged, response,
                    secret_cache >>
    /\ UNCHANGED << infected, basename, tmp, existing_meta, last_put, put_count, list_failed, runs >>
    /\ UNCHANGED secretVars

\* lines 523-527: the finally block closes a handle that was established
Finally ==
    /\ pc = "finally"
    /\ v1_handle' = IF v1_handle # "none" THEN "closed" ELSE v1_handle
    /\ pc' = "return"
    /\ UNCHANGED << env, source_count, exc, config, listed, task, scan_result, cur,
                    plan, action, ops, result, incr, store, tagged, response,
                    secret_cache >>
    /\ UNCHANGED << infected, basename, tmp, existing_meta, last_put, put_count, list_failed, runs >>
    /\ UNCHANGED secretVars

\* handler, lines 536-570: the summary of a returned result, or the error
\* response of an exception that left scan_bucket
Respond ==
    /\ pc = "return"
    /\ response' = IF exc THEN ErrorResponse
                   ELSE [status |-> "success", status_code |-> 200,
                         scanner_mode |-> config.v1_file_scanner_mode]
    /\ pc' = "end"
    /\ UNCHANGED << env, source_count, exc, config, v1_handle, listed, task,
                    scan_result, cur, plan, action, ops, result, incr, store,
                    tagged, secret_cache >>
    /\ UNCHANGED << infected, basename, tmp, existing_meta, last_put, put_count, list_failed, runs >>
    /\ UNCHANGED secretVars

Next ==
    \/ Construct
    \/ InitVisionOne
    \/ ListObjects
    \/ SubmitTasks
    \/ \E o \in Objects : Download(o)
    \/ \E o \in Objects : ScanFile(o)
    \/ \E o \in Objects : Collect(o)
    \/ DispGet
    \/ DispHead
    \/ DispPut
    \/ DispDelete
    \/ LeavePool
    \/ Finally
    \/ Respond

Spec == Init /\ [][Next]_vars

\* A run in which every call that was made returns and every thread that
\* can take a step is scheduled: the handler's thread and the workers of the
\* pool are operating-system threads, and every step of Next is the return
\* of one blocking call.
SpecLive == Spec /\ WF_vars(Next)

\* ------------------------------------ get_secret_from_vault, step by step
\* A caller enters get_secret_from_vault(secret_ocid, signer).
BeginCall(t, id) ==
    /\ tpc[t] = "idle"
    /\ calls < MaxCalls
    /\ calls' = calls + 1
    /\ tpc' = [tpc EXCEPT ![t] = "check"]
    /\ tid' = [tid EXCEPT ![t] = id]
    /\ tret' = [tret EXCEPT ![t] = "none"]
    /\ UNCHANGED << secret_cache, fetch_calls, fetch_ok, cache_writes, last_fetch >>
    /\ UNCHANGED runVars

\* lines 37-39: a cached secret is returned without a vault call
CheckCache(t) ==
    /\ tpc[t] = "check"
    /\ IF tid[t] \in DOMAIN secret_cache
       THEN /\ tret' = [tret EXCEPT ![t] = secret_cache[tid[t]]]
            /\ tpc' = [tpc EXCEPT ![t] = "idle"]
       ELSE /\ tret' = tret
            /\ tpc' = [tpc EXCEPT ![t] = "fetch"]
    /\ UNCHANGED << secret_cache, tid, fetch_calls, fetch_ok, cache_writes,
                    last_fetch, calls >>
    /\ UNCHANGED runVars

\* lines 45-51 and 59-61: get_secret_bundle returns the content, or raises
\* and the call ends in ValueError
FetchSecret(t) ==
    /\ tpc[t] = "fetch"
    /\ fetch_calls' = [fetch_calls EXCEPT ![tid[t]] = @ + 1]
    /\ \E vaultOk \in BOOLEAN :
         IF vaultOk
         THEN /\ fetch_ok' = [fetch_ok EXCEPT ![tid[t]] = @ + 1]
              /\ last_fetch' = [last_fetch EXCEPT ![tid[t]] = "ok"]
              /\ tpc' = [tpc EXCEPT ![t] = "store"]
              /\ tret' = tret
         ELSE /\ fetch_ok' = fetch_ok
              /\ last_fetch' = [last_fetch EXCEPT ![tid[t]] = "failed"]
              /\ tpc' = [tpc EXCEPT ![t] = "idle"]
              /\ tret' = [tret EXCEPT ![t] = "raised"]
    /\ UNCHANGED << secret_cache, tid, cache_writes, calls >>
    /\ UNCHANGED runVars

\* StoreSecret without the assignment of line 54: the content is returned
\* and not cached
StoreSecretNotCached(t) ==
    /\ tpc[t] = "store"
    /\ tret' = [tret EXCEPT ![t] = VaultContent(tid[t])]
    /\ tpc' = [tpc EXCEPT ![t] = "idle"]
    /\ UNCHANGED << secret_cache, cache_writes, tid, fetch_calls, fetch_ok,
                    last_fetch, calls >>
    /\ UNCHANGED runVars

\* lines 54-57: the content is stored in the cache and returned
StoreSecret(t) ==
    /\ tpc[t] = "store"
    /\ secret_cache' = (tid[t] :> VaultContent(tid[t])) @@ secret_cache
    /\ cache_writes' = [cache_writes EXCEPT ![tid[t]] = @ + 1]
    /\ tret' = [tret EXCEPT ![t] = VaultContent(tid[t])]
    /\ tpc' = [tpc EXCEPT ![t] = "idle"]
    /\ UNCHANGED << tid, fetch_calls, fetch_ok, last_fetch, calls >>
    /\ UNCHANGED runVars

AllIdle == \A t \in Threads : tpc[t] = "idle"

\* a call made while no other call is in progress
SeqBegin(t, id) == AllIdle /\ BeginCall(t, id)

\* The run variables of a process in which only the secret cache is used.
IdleEnv ==
    [ SOURCE_BUCKET_NAME |-> "src", V1_REGION |-> "us-1",
      V1_SCANNER_ENDPOINT |-> "host:443", V1_FILE_SCANNER_MODE |-> "TAG_ONLY",
      PRODUCTION_BUCKET_NAME |-> Unset, QUARANTINE_BUCKET_NAME |-> Unset,
      VAULT_SECRET_OCID |-> "ocid1", MAX_FILES |-> Unset, CONCURRENT_SCANS |-> Unset ]

InitSecret == RunInit(IdleEnv, 0) /\ SecretInit

NextSecretSeq ==
    \/ \E t \in Threads, id \in SecretIds : SeqBegin(t, id)
    \/ \E t \in Threads : CheckCache(t)
    \/ \E t \in Threads : FetchSecret(t)
    \/ \E t \in Threads : StoreSecret(t)

NextSecretConc ==
    \/ \E t \in Threads, id \in SecretIds : BeginCall(t, id)
    \/ \E t \in Threads : CheckCache(t)
    \/ \E t \in Threads : FetchSecret(t)
    \/ \E t \in Threads : StoreSecret(t)

\* sequential calls of get_secret_from_vault
SpecSecretSeq == InitSecret /\ [][NextSecretSeq]_vars

\* calls of get_secret_from_vault from concurrent threads
SpecSecretConc == InitSecret /\ [][NextSecretConc]_vars

\* ------------------------------------- scan_bucket called more than once
\* how many times scan_bucket is called on one BatchScanner instance
MaxRuns == 2

\* lines 464-467: scan_bucket is called again on the instance after it
\* returned or raised.  result, the listing and the futures are locals of
\* the call; self.config and self.v1_handle, the buckets and the files in
\* /tmp are what the earlier call left.
ScanBucketAgain ==
    /\ pc = "return"
    /\ runs < MaxRuns
    /\ runs' = runs + 1
    /\ pc' = "scan_bucket"
    /\ exc' = FALSE
    /\ result' = NewScanResult
    /\ listed' = {}
    /\ task' = [o \in Objects |-> "none"]
    /\ scan_result' = [o \in Objects |-> "none"]
    /\ cur' = 0
    /\ plan' = NoPlan
    /\ action' = [o \in Objects |-> ""]
    /\ ops' = [o \in Objects |-> {}]
    /\ incr' = [o \in Objects |-> << >>]
    /\ existing_meta' = Unread
    /\ last_put' = NoPut
    /\ put_count' = [o \in Objects |-> 0]
    /\ list_failed' = FALSE
    /\ UNCHANGED << env, source_count, config, v1_handle, store, tagged, response,
                    infected, basename, tmp, secret_cache >>
    /\ UNCHANGED secretVars

\* environments whose configuration resolves, one for each scanner mode
ReuseEnvs ==
    { [IdleEnv EXCEPT !.V1_FILE_SCANNER_MODE = m,
                      !.PRODUCTION_BUCKET_NAME = "prod",
                      !.QUARANTINE_BUCKET_NAME = "quar"] : m \in valid_modes }

InitReuse ==
    /\ \E e \in ReuseEnvs, n \in 0..MaxObjects : RunInit(e, n)
    /\ SecretInit

NextReuse ==
    \/ Next
    \/ ScanBucketAgain

\* one BatchScanner instance whose scan_bucket is called up to MaxRuns times
SpecReuse == InitReuse /\ [][NextReuse]_vars

\* -------------------------------------- move_file_based_on_scan, all inputs
\* every configuration move_file_based_on_scan can be called with
DecideConfigs ==
    { [ ok |-> TRUE, error |-> "", source_bucket_name |-> "src",
        v1_file_scanner_mode |-> m, production_bucket_name |-> p,
        quarantine_bucket_name |-> q, v1_api_key |-> "key1",
        max_files |-> DefaultMaxFiles, concurrent_scans |-> DefaultConcurrentScans ]
      : m \in valid_modes \cup {"DELETE_ALL"}, p \in {"", "prod"}, q \in {"", "quar"} }

\* as_completed has yielded the future of object 1, which holds a verdict
InitDecide ==
    /\ \E c \in DecideConfigs, v \in {"clean", "malware"} :
         /\ config = c
         /\ scan_result = [o \in Objects |-> IF o = 1 THEN v ELSE "none"]
    /\ env = IdleEnv
    /\ source_count = 1
    /\ pc = "collect"
    /\ exc = FALSE
    /\ v1_handle = "open"
    /\ listed = {1}
    /\ task = [o \in Objects |-> IF o = 1 THEN "done" ELSE "none"]
    /\ cur = 0
    /\ plan = NoPlan
    /\ action = [o \in Objects |-> ""]
    /\ ops = [o \in Objects |-> {}]
    /\ result = [NewScanResult EXCEPT !.total = 1]
    /\ incr = [o \in Objects |-> << >>]
    /\ store = [b \in Buckets |-> IF b = "src" THEN {1} ELSE {}]
    /\ tagged = {}
    /\ response = NoResponse
    /\ infected = {o \in Objects : scan_result[o] = "malware"}
    /\ basename = DistinctNames
    /\ tmp = [b \in Objects |-> IF b = 1 THEN 1 ELSE 0]
    /\ existing_meta = Unread
    /\ last_put = NoPut
    /\ put_count = [o \in Objects |-> 0]
    /\ list_failed = FALSE
    /\ runs = 1
    /\ SecretInit

NextDecide ==
    \/ \E o \in Objects : Collect(o)
    \/ DispGet
    \/ DispHead
    \/ DispPut
    \/ DispDelete

\* move_file_based_on_scan on one object under every configuration
SpecDecide == InitDecide /\ [][NextDecide]_vars

\* ================================================================ claims
Range(q) == {q[i] : i \in DOMAIN q}

InSource(o) == o \in store["src"]
InTarget(o) == o \in store["prod"] \cup store["quar"]
WasInSource(o) == o \in 1..source_count

TagStatuses == {"metadata_updated", "metadata_update_failed"}
MoveStatuses == {"moved", "copy_failed", "move_failed"}
FailureStatuses == {"metadata_update_failed", "copy_failed", "move_failed"}

\* scan_bucket has returned its result (it did not raise)
Completed == pc \in {"return", "end"} /\ config.ok /\ ~exc

C2_CountersPartition ==
    /\ result.scanned = result.clean + result.malware + result.errors
    /\ result.total >= result.scanned
    /\ \A o \in Objects \ listed : incr[o] = << >>
    /\ Completed =>
         /\ \A o \in listed :
              Len(incr[o]) = 1 /\ incr[o][1] \in {"clean", "malware", "errors"}
         /\ result.scanned = Cardinality(listed)
         /\ result.total = Cardinality(listed)

\* a completed run over two objects: a scan error and a clean verdict whose
\* disposition failed
C2_Witness ==
    /\ Completed
    /\ result.errors = 1 /\ result.clean = 1
    /\ \E o \in listed : action[o] \in FailureStatuses

\* the disposition move_file_based_on_scan selects for object o
Selected(o) ==
    Decide(config.v1_file_scanner_mode, scan_result[o] = "malware",
           config.quarantine_bucket_name, config.production_bucket_name)

\* C3: a failure while processing one object never aborts the others or the
\* batch.  Once the tasks are submitted no exception leaves scan_bucket, and
\* when the run has returned every listed object has been scanned, disposed
\* as its own verdict selects (a successful move put it in the selected
\* bucket, a successful tag rewrote it in the source) and recorded once.
C3_FailureIsolated ==
    /\ (\E o \in Objects : task[o] # "none") => ~exc
    /\ (pc = "end" /\ \E o \in Objects : task[o] # "none") => response.status = "success"
    /\ Completed =>
         \A o \in listed :
            /\ task[o] = "done" /\ scan_result[o] # "none"
            /\ action[o] # "" /\ Len(incr[o]) = 1
            /\ scan_result[o] # "error" =>
                 /\ Selected(o).kind = "tag" => action[o] \in TagStatuses
                 /\ Selected(o).kind = "move" => action[o] \in MoveStatuses
                 /\ action[o] = "moved" => o \in store[Selected(o).bucket] /\ ~InSource(o)
                 /\ action[o] = "metadata_updated" => o \in tagged

\* a completed run in which one object failed to scan and another was moved
C3_Witness ==
    /\ Completed
    /\ \E o1, o2 \in listed :
         scan_result[o1] = "error" /\ action[o2] = "moved"

\* C4: every object-scoped failure increments the errors counter: an object
\* whose scan failed, and an object whose disposition returned
\* "metadata_update_failed", "copy_failed" or "move_failed", has incremented
\* errors.
C4_FailuresCountAsErrors ==
    \A o \in Objects :
       action[o] \in FailureStatuses \cup {"error"} => "errors" \in Range(incr[o])

\* C5: an object whose scan returned an error gets no disposition in any
\* mode: no get, head, put or delete is issued for it after the scan, it stays
\* in the source bucket as it was and reaches no target bucket, it is recorded
\* as 'error' in the errors counter, and the run ends with a success response
\* that counts it.
C5_ScanErrorNoDisposition ==
    \A o \in Objects :
       scan_result[o] = "error" =>
          /\ ops[o] = {} /\ cur # o
          /\ WasInSource(o) => InSource(o)
          /\ o \notin tagged /\ ~InTarget(o)
          /\ action[o] # "" => action[o] = "error" /\ incr[o] = << "errors" >>
          /\ pc = "end" =>
                response.status = "success" /\ action[o] = "error" /\ result.errors >= 1

\* the run of a moving mode has answered with success after the scan of one
\* object failed and another object was moved
C5_Witness ==
    /\ pc = "end" /\ response.status = "success"
    /\ config.v1_file_scanner_mode = "MOVE_ALL"
    /\ \E o1, o2 \in listed : scan_result[o1] = "error" /\ action[o2] = "moved"
    /\ result.errors = 1

\* The table of section 4.4, row by row: [applies, action].
TableRows(mode, malware, quar, prod) ==
    { [row |-> 1, applies |-> mode = "TAG_ONLY", act |-> TagInPlace],
      [row |-> 2, applies |-> mode = "MOVE_MALWARE_ONLY" /\ malware /\ quar # "",
       act |-> MoveTo(quar)],
      [row |-> 3, applies |-> mode = "MOVE_MALWARE_ONLY" /\ ~malware, act |-> TagInPlace],
      [row |-> 4, applies |-> mode = "MOVE_MALWARE_ONLY" /\ malware /\ quar = "",
       act |-> TagInPlace],
      [row |-> 5, applies |-> mode \notin {"TAG_ONLY", "MOVE_MALWARE_ONLY"} /\ malware /\ quar # "",
       act |-> MoveTo(quar)],
      [row |-> 6, applies |-> mode \notin {"TAG_ONLY", "MOVE_MALWARE_ONLY"} /\ ~malware /\ prod # "",
       act |-> MoveTo(prod)],
      [row |-> 7, applies |-> /\ mode \notin {"TAG_ONLY", "MOVE_MALWARE_ONLY"}
                              /\ (IF malware THEN quar ELSE prod) = "",
       act |-> TagInPlace] }

RowsFor(o) ==
    { r \in TableRows(config.v1_file_scanner_mode, scan_result[o] = "malware",
                      config.quarantine_bucket_name, config.production_bucket_name)
        : r.applies }

\* C6: for every mode (the three valid ones and any other value), verdict
\* and presence of the quarantine and production bucket names, exactly one
\* row of the table of section 4.4 applies, the disposition
\* move_file_based_on_scan carries out is that row's action, and the status
\* it returns is one of that action.
C6_DecisionTable ==
    /\ pc \in {"get", "head", "put", "delete"} =>
          /\ Cardinality(RowsFor(cur)) = 1
          /\ \A r \in RowsFor(cur) : plan = r.act
    /\ \A o \in Objects :
          (action[o] # "" /\ scan_result[o] # "error") =>
             \A r \in RowsFor(o) :
                /\ r.act.kind = "tag" => action[o] \in TagStatuses
                /\ r.act.kind = "move" => action[o] \in MoveStatuses
                /\ action[o] = "moved" => o \in store[r.act.bucket]

\* the fallback row: MOVE_ALL without a production bucket has tagged a clean
\* object in place
C6_Witness ==
    /\ config.v1_file_scanner_mode = "MOVE_ALL"
    /\ config.production_bucket_name = "" /\ config.quarantine_bucket_name # ""
    /\ scan_result[1] = "clean" /\ action[1] = "metadata_updated"

\* C7: the scan connection is established before any scan task is
\* submitted; while a task is queued or running the handle is open, so the
\* handle is closed only when every task is done and no scan call is made on
\* a closed handle; and when the run has ended, by return or by exception,
\* an established handle is closed.
C7_ConnectionScoped ==
    /\ (\E o \in Objects : task[o] # "none") => v1_handle # "none"
    /\ \A o \in Objects : task[o] \in {"queued", "downloaded"} => v1_handle = "open"
    /\ v1_handle = "closed" => \A o \in listed : task[o] \in {"none", "done"}
    /\ pc \in {"return", "end"} => v1_handle # "open"
    /\ (pc \in {"return", "end"} /\ result.total > 0) => v1_handle = "closed"

\* the run left by a listing failure and its established handle is closed
C7_Witness ==
    /\ pc = "return" /\ exc /\ v1_handle = "closed" /\ result.total = 0

\* what holds of the cache between and during sequential calls
C8_CacheState ==
    \A i \in SecretIds :
       /\ fetch_ok[i] <= 1
       /\ cache_writes[i] <= fetch_ok[i]
       /\ AllIdle => (i \in DOMAIN secret_cache <=> fetch_ok[i] = 1)
       /\ AllIdle => cache_writes[i] = fetch_ok[i]
       /\ i \in DOMAIN secret_cache =>
             secret_cache[i] = VaultContent(i) /\ last_fetch[i] = "ok"
       /\ \A t \in Threads :
             /\ (tid[t] = i /\ tret[t] = "raised") =>
                   fetch_calls[i] > fetch_ok[i] /\ tpc[t] = "idle"
             /\ (tid[t] = i /\ tret[t] \notin {"none", "raised"}) =>
                   tret[t] = VaultContent(i) /\ i \in DOMAIN secret_cache

\* C8: for sequential calls of get_secret_from_vault the vault fetch of an
\* identifier succeeds at most once; once the identifier is cached no call
\* makes a vault call and a call returns the cached value; a failed fetch
\* stores nothing and raises, so between calls the cache holds an identifier
\* exactly when a fetch of it succeeded.
C8_FetchOnceSequential ==
    /\ []C8_CacheState
    /\ [][\A i \in SecretIds :
             /\ i \in DOMAIN secret_cache =>
                   fetch_calls'[i] = fetch_calls[i] /\ i \in DOMAIN secret_cache'
             /\ (last_fetch'[i] = "failed" /\ fetch_calls'[i] # fetch_calls[i]) =>
                   secret_cache' = secret_cache]_vars

\* three calls for one identifier: a failed fetch, a retry that succeeded and
\* a call answered from the cache
C8_Witness ==
    /\ AllIdle /\ calls = 3
    /\ fetch_calls["ocid1"] = 2 /\ fetch_ok["ocid1"] = 1 /\ fetch_calls["ocid2"] = 0
    /\ "ocid1" \in DOMAIN secret_cache
    /\ \E t \in Threads : tret[t] = "key1"

\* C9: when several threads call get_secret_from_vault for the same
\* identifier that is not cached yet, in any interleaving, the vault fetch
\* succeeds at most once and the cache entry is written at most once.
C9_SingleFetchConcurrent ==
    \A i \in SecretIds : fetch_ok[i] <= 1 /\ cache_writes[i] <= 1

UnrecognizedMode(e) ==
    ~Falsy(e.V1_FILE_SCANNER_MODE) /\ e.V1_FILE_SCANNER_MODE \notin valid_modes

\* the other mandatory keys are present, the secret was fetched and the
\* optional numbers are valid
RestResolves(e, cfg) ==
    /\ ~Falsy(e.SOURCE_BUCKET_NAME) /\ ~Falsy(e.V1_REGION)
    /\ ~Falsy(e.V1_SCANNER_ENDPOINT) /\ ~Falsy(e.VAULT_SECRET_OCID)
    /\ cfg.error # "Failed to retrieve secret from vault"
    /\ NumericSetting(e.MAX_FILES, DefaultMaxFiles).ok
    /\ NumericSetting(e.CONCURRENT_SCANS, DefaultConcurrentScans).ok

\* C10 as stated: an unrecognized scanner mode resolves to MOVE_ALL and never
\* to a fatal error, whatever bucket names are configured.
C10_UnrecognizedNeverFatal ==
    (pc # "handler" /\ UnrecognizedMode(env) /\ RestResolves(env, config)) =>
       config.ok /\ config.v1_file_scanner_mode = "MOVE_ALL"

\* C10 amended: an unrecognized scanner mode is treated as MOVE_ALL.  With
\* both the production and the quarantine bucket name present the resolution
\* succeeds with mode MOVE_ALL; with one of them missing it fails with the
\* MOVE_ALL error naming the missing bucket, and the run answers with the
\* error response.
C10_UnrecognizedIsMoveAll ==
    (pc # "handler" /\ UnrecognizedMode(env) /\ RestResolves(env, config)) =>
       IF ~Falsy(env.PRODUCTION_BUCKET_NAME) /\ ~Falsy(env.QUARANTINE_BUCKET_NAME)
       THEN /\ config.ok /\ config.v1_file_scanner_mode = "MOVE_ALL"
            /\ config.production_bucket_name = env.PRODUCTION_BUCKET_NAME
            /\ config.quarantine_bucket_name = env.QUARANTINE_BUCKET_NAME
            /\ pc = "end" => response.scanner_mode = "MOVE_ALL" \/ exc
       ELSE /\ ~config.ok /\ pc = "end" /\ response = ErrorResponse
            /\ config.error =
                 "Missing required environment variable for MOVE_ALL mode: "
                 \o (IF Falsy(env.PRODUCTION_BUCKET_NAME) THEN "PRODUCTION_BUCKET_NAME"
                                                          ELSE "QUARANTINE_BUCKET_NAME")

\* a run started with an unrecognized mode and both buckets has moved a
\* clean object to the production bucket
C10_Witness ==
    /\ UnrecognizedMode(env) /\ config.ok
    /\ response.scanner_mode = "MOVE_ALL"
    /\ \E o \in listed : scan_result[o] = "clean" /\ action[o] = "moved" /\ o \in store["prod"]

\* ------------------------------------------------------------------- C11
\* the environment keys of the buckets a mode cannot run without
RequiredBuckets(mode) ==
    CASE mode = "MOVE_ALL" -> {"PRODUCTION_BUCKET_NAME", "QUARANTINE_BUCKET_NAME"}
      [] mode = "MOVE_MALWARE_ONLY" -> {"QUARANTINE_BUCKET_NAME"}
      [] OTHER -> {}

MissingBuckets(e, mode) == {k \in RequiredBuckets(mode) : Falsy(e[k])}

\* no connection was initialised, nothing was listed, no object was scanned
\* or disposed
NothingStarted ==
    /\ v1_handle = "none" /\ listed = {} /\ ~list_failed
    /\ \A o \in Objects : task[o] = "none" /\ scan_result[o] = "none"
                          /\ ops[o] = {} /\ action[o] = ""
    /\ result = NewScanResult
    /\ store = [b \in Buckets |-> IF b = "src" THEN 1..source_count ELSE {}]

Disposing == pc \in {"get", "head", "put", "delete"}

\* C11: the configuration resolves in MOVE_ALL only with both the production
\* and the quarantine bucket, in MOVE_MALWARE_ONLY only with the quarantine
\* bucket, and in TAG_ONLY with neither.  When a bucket the mode requires is
\* missing the resolution fails, and no connection is initialised, nothing is
\* listed and no object is scanned.  Whenever an object is being disposed,
\* the buckets the active mode requires are present.
C11_BucketsEnforced ==
    pc # "handler" =>
      LET mode == NormalizeMode(env.V1_FILE_SCANNER_MODE)
      IN  /\ (~Falsy(env.V1_FILE_SCANNER_MODE) /\ RestResolves(env, config)) =>
                (config.ok <=> MissingBuckets(env, mode) = {})
          /\ (FirstMissingRequired(env) = "" /\ MissingBuckets(env, mode) # {}) =>
                /\ ~config.ok /\ NothingStarted
                /\ pc = "end" /\ response = ErrorResponse
          /\ Disposing =>
                /\ config.ok
                /\ MissingBuckets(env, config.v1_file_scanner_mode) = {}
                /\ "PRODUCTION_BUCKET_NAME" \in RequiredBuckets(config.v1_file_scanner_mode)
                     => config.production_bucket_name = env.PRODUCTION_BUCKET_NAME
                /\ "QUARANTINE_BUCKET_NAME" \in RequiredBuckets(config.v1_file_scanner_mode)
                     => config.quarantine_bucket_name = env.QUARANTINE_BUCKET_NAME

\* an object is being disposed in MOVE_MALWARE_ONLY mode, resolved with the
\* quarantine bucket alone
C11_Witness ==
    /\ Disposing
    /\ config.v1_file_scanner_mode = "MOVE_MALWARE_ONLY"
    /\ Falsy(env.PRODUCTION_BUCKET_NAME)
    /\ config.quarantine_bucket_name = "quar"
    /\ plan = MoveTo("quar")

\* ------------------------------------------------------------------- C12
\* no object was downloaded, scanned, tagged, moved or deleted
NothingScanned ==
    /\ \A o \in Objects : /\ task[o] = "none" /\ scan_result[o] = "none"
                          /\ ops[o] = {} /\ action[o] = "" /\ put_count[o] = 0
                          /\ tmp[o] = 0
    /\ tagged = {} /\ last_put = NoPut
    /\ result.scanned = 0 /\ result.clean = 0 /\ result.malware = 0
    /\ store = [b \in Buckets |-> IF b = "src" THEN 1..source_count ELSE {}]

InvalidNumber(v) == v # Unset /\ ~ParseInt(v).ok

\* a mandatory key is missing, a number is invalid, or the secret could not
\* be fetched
FatalConfiguration ==
    \/ FirstMissingRequired(env) # ""
    \/ Falsy(env.VAULT_SECRET_OCID)
    \/ InvalidNumber(env.MAX_FILES)
    \/ InvalidNumber(env.CONCURRENT_SCANS)
    \/ config.error = "Failed to retrieve secret from vault"

\* amaas.grpc.init raised
InitFailed == config.ok /\ exc /\ v1_handle = "none"

\* C12: a missing mandatory configuration key, an invalid MAX_FILES or
\* CONCURRENT_SCANS, a failed secret fetch and a failed initialisation of the
\* scan connection each make handler return the error response (status
\* "error", status code 500), and nothing is downloaded, scanned, tagged,
\* moved or deleted in that invocation.
C12_FatalConditions ==
    /\ (pc # "handler" /\ FatalConfiguration) =>
          /\ ~config.ok /\ pc = "end"
          /\ response = ErrorResponse
          /\ NothingScanned /\ v1_handle = "none" /\ listed = {}
    /\ InitFailed =>
          /\ pc \in {"finally", "return", "end"}
          /\ pc = "end" => response = ErrorResponse
          /\ NothingScanned /\ listed = {}

\* handler has answered a run whose MAX_FILES is no number, all the rest of
\* its configuration being available
C12_Witness ==
    /\ pc = "end"
    /\ InvalidNumber(env.MAX_FILES)
    /\ config.error = "invalid literal for int()"
    /\ response.status = "error" /\ response.status_code = 500

\* ------------------------------------------------------------------- C13
\* the scan metadata of the latest put_object call: the scan keys of the
\* verdict, and for a copy to another bucket the originating bucket
ScanKeysOf(call) ==
    LET is_malware == scan_result[call.object] = "malware"
        verdict == ("filescanned" :> "true")
                   @@ ("ismalwaredetected" :> IF is_malware THEN "true" ELSE "false")
    IN  IF call.bucket # config.source_bucket_name
        THEN verdict @@ ("originalbucket" :> config.source_bucket_name)
        ELSE verdict

\* C13: the metadata written by a tag-in-place or a move is additive.  The
\* map written with the object holds every scan key with its scan value,
\* also where the pre-existing map has the same key, and every pre-existing
\* key that is no scan key with its original value; for a move the scan
\* metadata carries the originating-bucket key set to the source bucket name.
C13_MergeAdditive ==
    last_put # NoPut =>
      LET written == last_put.opc_meta
          before == last_put.existing
          scan == ScanKeysOf(last_put)
          scan_keys == IF last_put.bucket # config.source_bucket_name
                       THEN DOMAIN ScanMetadata(TRUE) \cup {"originalbucket"}
                       ELSE DOMAIN ScanMetadata(TRUE)
      IN  /\ DOMAIN scan \subseteq scan_keys
          /\ scan_keys \subseteq DOMAIN written
          /\ \A k \in DOMAIN scan : written[k] = scan[k]
          /\ \A k \in DOMAIN before \ scan_keys :
                k \in DOMAIN written /\ written[k] = before[k]
          /\ DOMAIN written = DOMAIN before \cup scan_keys

\* an object whose metadata held owner, filescanned and originalbucket was
\* copied to the quarantine bucket
C13_Witness ==
    /\ last_put.bucket = "quar"
    /\ last_put.existing = UserMeta
    /\ last_put.opc_meta["owner"] = "alice"
    /\ last_put.opc_meta["originalbucket"] = "src"
    /\ last_put.opc_meta["filescanned"] = "true"

\* ------------------------------------------------------------------- C14
\* C14: the existing metadata is read defensively in tag-in-place and in
\* move.  Whatever head_object answers (it fails, its metadata value does not
\* parse, or the value denotes no key-value map), the disposition of the
\* object goes on to its put_object and does not end in a failure status
\* without having written.
C14_DefensiveRead ==
    \A o \in Objects :
       ("head" \in ops[o] /\ action[o] # "") =>
          /\ put_count[o] = 1
          /\ "put" \in ops[o]

\* ------------------------------------------------------------------- C15
\* handler has answered a run in which nothing but calls of the object store
\* can have failed: the configuration resolved, the scan connection was
\* established and the pool could be created
OnlyStoreCallsCanFail ==
    /\ pc = "end" /\ config.ok /\ v1_handle # "none"
    /\ listed # {} => config.concurrent_scans >= 1

SuccessResponse ==
    /\ ~exc
    /\ response.status = "success" /\ response.status_code = 200
    /\ listed \subseteq Processed

\* C15 as stated: every failure of a call of the object store (list, get,
\* head, put, delete) is object-scoped and never fatal to the run: scan_bucket
\* returns its result and handler returns the success summary.
C15_StoreFailuresNeverFatal ==
    OnlyStoreCallsCanFail => SuccessResponse

\* C15 amended: every failure of a get, head, put or delete is object-scoped:
\* scan_bucket returns its result and handler returns the success summary.
\* A failure of the list call is fatal to the run: nothing is scanned, the
\* scan connection is closed and handler returns the error response.
C15_ObjectCallFailuresNeverFatal ==
    OnlyStoreCallsCanFail =>
       IF list_failed
       THEN /\ response = ErrorResponse /\ exc
            /\ NothingScanned /\ listed = {} /\ v1_handle = "closed"
       ELSE SuccessResponse

\* a run answered with the success summary although the copy of one object
\* and the delete of another failed
C15_Witness ==
    /\ OnlyStoreCallsCanFail /\ SuccessResponse
    /\ \E o, p \in listed :
          /\ action[o] = "copy_failed" /\ "put" \in ops[o]
          /\ action[p] = "move_failed" /\ "delete" \in ops[p]

\* ------------------------------------------------------------------- C16
\* C16: when the listing of the source bucket is empty, scan_bucket returns
\* without error a result whose counters are all zero and whose duration is
\* recorded; no worker is started, and the scan connection that was
\* initialised is torn down.
C16_EmptyListing ==
    (Completed /\ listed = {}) =>
       /\ result.total = 0 /\ result.scanned = 0 /\ result.clean = 0
       /\ result.malware = 0 /\ result.errors = 0 /\ result.skipped = 0
       /\ result.duration_set
       /\ \A o \in Objects : task[o] = "none"
       /\ v1_handle = "closed"
       /\ pc = "end" => response.status = "success"

\* ------------------------------------------------------------------- C17
TagOnly == config.ok /\ config.v1_file_scanner_mode = "TAG_ONLY"

HasVerdict(o) == scan_result[o] \in {"clean", "malware"}

\* what C17 says of every disposition outcome: no delete, no write to a
\* bucket other than the source, the names in the source bucket unchanged,
\* and the counts of the verdicts
TagOnlyNoMove ==
    /\ \A o \in Objects : "delete" \notin ops[o]
    /\ last_put # NoPut => last_put.bucket = config.source_bucket_name
    /\ store["prod"] = {} /\ store["quar"] = {}
    /\ store["src"] = 1..source_count
    /\ \A o \in Processed : HasVerdict(o) => action[o] \in TagStatuses
    /\ Completed =>
          /\ result.clean = Cardinality({o \in listed : scan_result[o] = "clean"})
          /\ result.malware = Cardinality({o \in listed : scan_result[o] = "malware"})

\* C17 as stated: in TAG_ONLY mode no move is performed, and every object
\* with a verdict receives exactly one tag-in-place write to its own key in
\* the source bucket.
C17_TagOnlyOneWriteEach ==
    TagOnly =>
       /\ TagOnlyNoMove
       /\ \A o \in Processed : HasVerdict(o) => put_count[o] = 1

\* C17 amended: in TAG_ONLY mode no move is performed, and every object with
\* a verdict is given the tag-in-place disposition once.  The disposition
\* issues at most one write, to the object's own key in the source bucket:
\* one when it reports metadata_updated, none when it fails before its write.
C17_TagOnlyAtMostOneWrite ==
    TagOnly =>
       /\ TagOnlyNoMove
       /\ \A o \in Objects : put_count[o] <= 1
       /\ \A o \in Objects : put_count[o] = 1 => HasVerdict(o)
       /\ \A o \in Processed :
             action[o] = "metadata_updated" =>
                put_count[o] = 1 /\ o \in tagged /\ Len(incr[o]) = 1

\* a TAG_ONLY run has returned with one object tagged in place and another
\* whose tag-in-place ended before its write
C17_Witness ==
    /\ TagOnly /\ Completed
    /\ \E o, p \in listed :
          /\ action[o] = "metadata_updated" /\ put_count[o] = 1
          /\ action[p] = "metadata_update_failed" /\ put_count[p] = 0
          /\ "head" \notin ops[p]

\* ------------------------------------------------------------------- C18
\* the pool was created and the futures were submitted
PoolStarted == \E o \in Objects : task[o] # "none"

C18_DispatchState ==
    /\ config.ok => Cardinality(Running) <= config.concurrent_scans
    /\ \A o \in Objects : task[o] # "none" => o \in listed
    /\ PoolStarted => \A o \in listed : task[o] # "none"
    /\ \A o \in Objects :
          /\ task[o] = "done" <=> scan_result[o] # "none"
          /\ Len(incr[o]) <= 1
          /\ action[o] # "" <=> Len(incr[o]) = 1
          /\ action[o] # "" => task[o] = "done"
          /\ cur = o => task[o] = "done" /\ action[o] = ""
    /\ (Completed /\ PoolStarted) => listed \subseteq Processed

\* C18: one scan task is created per listed object; a task is started once,
\* reaches one terminal outcome, and that outcome is disposed and recorded
\* once; at no time do more than concurrent_scans tasks run.
C18_BoundedExactlyOnce ==
    /\ []C18_DispatchState
    /\ [][\A o \in Objects :
             /\ task[o] = "downloaded" => task'[o] \in {"downloaded", "done"}
             /\ task[o] = "done" =>
                   task'[o] = "done" /\ scan_result'[o] = scan_result[o]
             /\ action[o] # "" => action'[o] = action[o] /\ incr'[o] = incr[o]]_vars

\* a pool of one worker is running one task while another task waits
C18_Witness ==
    /\ config.ok /\ config.concurrent_scans = 1
    /\ Cardinality(Running) = 1
    /\ \E o \in listed : task[o] = "queued"

\* ------------------------------------------------------------------- C19
\* scan_bucket has returned or raised; its tasks are all finished, and the
\* tasks of a run that returned a result are disposed and recorded
Returned ==
    /\ pc \in {"return", "end"}
    /\ \A o \in Objects : task[o] \in {"none", "done"}
    /\ ~exc => /\ listed \subseteq Processed
               /\ \A o \in listed : Len(incr[o]) = 1
               /\ result.scanned = Cardinality(listed)

\* C19: when every external call returns, scan_bucket called with a pool of
\* at least one worker returns, for every listing; and it returns only after
\* every task it dispatched has completed and has been disposed and recorded.
C19_Terminates ==
    /\ (pc = "scan_bucket" /\ config.concurrent_scans >= 1) ~> Returned
    /\ [](pc \in {"finally", "return", "end"} =>
             /\ \A o \in Objects : task[o] \in {"none", "done"}
             /\ (~exc /\ config.ok) => listed \subseteq Processed)

\* scan_bucket has returned a run of two objects on a pool of one worker
C19_Witness ==
    /\ Returned /\ ~exc /\ pc = "return"
    /\ config.concurrent_scans = 1
    /\ Cardinality(listed) = 2
    /\ result.scanned = 2

\* ------------------------------------------------------------------- C20
\* C20: scan tasks are independent.  For every interleaving of the workers,
\* also when two listed objects share their basename and with it their
\* scratch file /tmp/<basename>, the verdict _scan_file returns for an object
\* is the verdict of the bytes of that object.
C20_OwnBytesScanned ==
    \A o \in Objects :
       scan_result[o] \in {"clean", "malware"} => scan_result[o] = Verdict(o)

\* ------------------------------------------------------------------- C21
\* the move of object o copied it to the target bucket and then failed to
\* delete it from the source bucket
DeleteFailed(o) == action[o] = "move_failed" /\ "delete" \in ops[o]

\* the bucket move_file_based_on_scan moves object o to
TargetOf(o) ==
    IF scan_result[o] = "malware" THEN config.quarantine_bucket_name
                                  ELSE config.production_bucket_name

C21_BothCopiesState ==
    /\ \A o \in Objects :
          /\ DeleteFailed(o) =>
                /\ InSource(o) /\ TargetOf(o) # "" /\ o \in store[TargetOf(o)]
                /\ put_count[o] = 1 /\ ops[o] = {"get", "head", "put", "delete"}
                /\ Len(incr[o]) = 1
          /\ action[o] = "moved" => ~InSource(o)
    /\ Completed => listed \subseteq Processed

\* C21: when the copy of a move succeeds and the delete of the source object
\* fails, the object is in the source and in the target bucket afterwards,
\* the action returns "move_failed" and never "moved", the delete is not
\* retried and the target copy is not removed, and the batch goes on with
\* the remaining objects.
C21_FailedDeleteKeepsBoth ==
    /\ []C21_BothCopiesState
    /\ [][/\ (pc = "delete" /\ pc' # "delete" /\ cur \in store'["src"]) =>
                /\ action'[cur] = "move_failed"
                /\ store' = store
                /\ pc' = "collect"
          /\ \A o \in Objects :
                DeleteFailed(o) =>
                   /\ DeleteFailed(o)' /\ ops'[o] = ops[o]
                   /\ put_count'[o] = put_count[o]
                   /\ InSource(o)' /\ o \in store'[TargetOf(o)]]_vars

\* a run has returned in which the delete of one object failed after its
\* copy and another object was moved
C21_Witness ==
    /\ Completed
    /\ \E o, p \in listed :
          /\ DeleteFailed(o) /\ InSource(o) /\ o \in store[TargetOf(o)]
          /\ action[p] = "moved" /\ ~InSource(p)

\* ------------------------------------------------------------------- C22
\* the scanner-mode setting is unset or empty and the other mandatory keys
\* are present
ModeAbsent(e) ==
    /\ Falsy(e.V1_FILE_SCANNER_MODE)
    /\ ~Falsy(e.SOURCE_BUCKET_NAME) /\ ~Falsy(e.V1_REGION)
    /\ ~Falsy(e.V1_SCANNER_ENDPOINT)

\* C22: when the scanner-mode setting is absent (unset or empty) and the
\* other mandatory keys are present, the configuration resolution defaults
\* the mode to MOVE_ALL and does not fail on the absent setting.
C22_AbsentModeDefaults ==
    (pc # "handler" /\ ModeAbsent(env)) =>
       /\ config.error # "Missing required environment variable: V1_FILE_SCANNER_MODE"
       /\ (/\ RestResolves(env, config)
           /\ MissingBuckets(env, "MOVE_ALL") = {}) =>
             config.ok /\ config.v1_file_scanner_mode = "MOVE_ALL"

\* ------------------------------------------------------------------- C23
\* C23: in every run of a sequence of scan_bucket calls on one BatchScanner
\* instance, the scan tasks are dispatched and the scans are issued on an
\* open connection handle: a run that follows a completed run establishes a
\* fresh connection instead of reusing the closed handle kept in v1_handle.
C23_ScansOnOpenHandle ==
    /\ \A o \in Objects : task[o] \in {"queued", "downloaded"} => v1_handle = "open"
    /\ (runs > 1 /\ pc \in {"list", "pool", "collect"}) => v1_handle = "open"

====
